---- MODULE Spec2Model ----
(***************************************************************************)
(* SkinIQ analysis relay: the two handlers of the repository,              *)
(*   legacy : SkinIQ/netlify/functions/analyze.js  (exports.handler)       *)
(*   v2     : the Netlify v2 function served at /api/analyze               *)
(* Each behaviour is the handling of one request.  Texts (request content, *)
(* upstream reply) are sequences of lexemes: a triple backtick, the word   *)
(* json, a space, a newline, the JSON punctuation, a digit and words.      *)
(***************************************************************************)
EXTENDS Integers, Sequences, FiniteSets, TLC

\* ------------------------------------------------------------------ lexemes
\* FENCE stands for three consecutive backticks
FENCE == "<fence>"
JSONTAG == "json"
SP == " "
NL == "\n"
QUOTE == "\""
LBRACE == "{"
RBRACE == "}"
LBRACK == "["
RBRACK == "]"
COLON == ":"
COMMA == ","
DIGIT == "1"
WORD == "w"
KEYA == "name"
KEYING == "ingredients"

\* what the regex class \s and String.prototype.trim treat as whitespace
IsSpace(c) == c \in {SP, NL}

\* ------------------------------------------------------------------ bounds
MaxSegs == 4
MaxPad == 1
MaxProse == 1

\* ------------------------------------------------------- string primitives
RECURSIVE DropSpaces(_)
\* the effect of matching \s* at the start of s and removing the match
DropSpaces(s) ==
  IF s # <<>> /\ IsSpace(Head(s)) THEN DropSpaces(Tail(s)) ELSE s

RECURSIVE DropSpacesEnd(_)
DropSpacesEnd(s) ==
  IF s # <<>> /\ IsSpace(s[Len(s)]) THEN DropSpacesEnd(SubSeq(s, 1, Len(s) - 1)) ELSE s

\* String.prototype.trim
Trim(s) == DropSpacesEnd(DropSpaces(s))

\* String.prototype.slice(0, n)
SliceTo(s, n) == IF Len(s) <= n THEN s ELSE SubSeq(s, 1, n)

RECURSIVE Repeat(_, _)
Repeat(c, n) == IF n = 0 THEN <<>> ELSE <<c>> \o Repeat(c, n - 1)

\* content.trim().split(/[\n,]/).length : one more than the separators
SplitCount(s) == 1 + Cardinality({i \in 1..Len(s) : s[i] \in {NL, COMMA}})

\* ------------------------------------------------------------- JSON.parse
\* A parse result: ok, the value re-serialised as JSON.stringify prints it
\* (val), its JSON type, for an object its members <<key, type of value>>,
\* and the unread rest of the input.
ParseFail == [ok |-> FALSE, val |-> <<>>, type |-> "none", members |-> <<>>, rest |-> <<>>]

RECURSIVE IndexOf(_, _, _)
\* first index >= from at which s holds c, 0 if none
IndexOf(s, c, from) ==
  IF from > Len(s) THEN 0
  ELSE IF s[from] = c THEN from ELSE IndexOf(s, c, from + 1)

\* a string literal: quote, characters other than quote and raw newline, quote
ParseString(s) ==
  IF s = <<>> \/ Head(s) # QUOTE THEN ParseFail
  ELSE LET k == IndexOf(s, QUOTE, 2) IN
       IF k = 0 \/ (\E i \in 2..(k - 1) : s[i] = NL) THEN ParseFail
       ELSE [ok |-> TRUE, val |-> SubSeq(s, 1, k), type |-> "string",
             members |-> <<>>, rest |-> SubSeq(s, k + 1, Len(s))]

RECURSIVE ParseNumber(_, _)
ParseNumber(s, acc) ==
  IF s # <<>> /\ Head(s) = DIGIT THEN ParseNumber(Tail(s), Append(acc, DIGIT))
  ELSE [ok |-> TRUE, val |-> acc, type |-> "number", members |-> <<>>, rest |-> s]

RECURSIVE ParseValue(_)
RECURSIVE ParseMembers(_, _, _)
RECURSIVE ParseElements(_, _)

\* members of an object after the opening brace (or after a comma)
ParseMembers(s, acc, mem) ==
  LET k == ParseString(DropSpaces(s)) IN
  IF ~k.ok THEN ParseFail
  ELSE LET t == DropSpaces(k.rest) IN
       IF t = <<>> \/ Head(t) # COLON THEN ParseFail
       ELSE LET v == ParseValue(Tail(t)) IN
            IF ~v.ok THEN ParseFail
            ELSE LET u == DropSpaces(v.rest)
                     acc2 == acc \o k.val \o <<COLON>> \o v.val
                     mem2 == Append(mem, <<k.val, v.type>>)
                 IN IF u = <<>> THEN ParseFail
                    ELSE IF Head(u) = RBRACE
                      THEN [ok |-> TRUE, val |-> Append(acc2, RBRACE), type |-> "object",
                            members |-> mem2, rest |-> Tail(u)]
                    ELSE IF Head(u) = COMMA
                      THEN ParseMembers(Tail(u), Append(acc2, COMMA), mem2)
                    ELSE ParseFail

\* elements of an array after the opening bracket (or after a comma)
ParseElements(s, acc) ==
  LET v == ParseValue(s) IN
  IF ~v.ok THEN ParseFail
  ELSE LET u == DropSpaces(v.rest)
           acc2 == acc \o v.val
       IN IF u = <<>> THEN ParseFail
          ELSE IF Head(u) = RBRACK
            THEN [ok |-> TRUE, val |-> Append(acc2, RBRACK), type |-> "array",
                  members |-> <<>>, rest |-> Tail(u)]
          ELSE IF Head(u) = COMMA THEN ParseElements(Tail(u), Append(acc2, COMMA))
          ELSE ParseFail

ParseValue(s) ==
  LET t == DropSpaces(s) IN
  IF t = <<>> THEN ParseFail
  ELSE IF Head(t) = DIGIT THEN ParseNumber(t, <<>>)
  ELSE IF Head(t) = QUOTE THEN ParseString(t)
  ELSE IF Head(t) = LBRACE
    THEN LET u == DropSpaces(Tail(t)) IN
         IF u # <<>> /\ Head(u) = RBRACE
           THEN [ok |-> TRUE, val |-> <<LBRACE, RBRACE>>, type |-> "object",
                 members |-> <<>>, rest |-> Tail(u)]
           ELSE ParseMembers(Tail(t), <<LBRACE>>, <<>>)
  ELSE IF Head(t) = LBRACK
    THEN LET u == DropSpaces(Tail(t)) IN
         IF u # <<>> /\ Head(u) = RBRACK
           THEN [ok |-> TRUE, val |-> <<LBRACK, RBRACK>>, type |-> "array",
                 members |-> <<>>, rest |-> Tail(u)]
           ELSE ParseElements(Tail(t), <<LBRACK>>)
  ELSE ParseFail

\* JSON.parse(s): one value, surrounded by optional whitespace, nothing else
JSONParse(s) ==
  LET r == ParseValue(s) IN
  IF r.ok /\ DropSpaces(r.rest) = <<>> THEN r ELSE ParseFail

\* ------------------------------------------------------- fence stripping
\* legacy: text.replace(/^FENCE(?:json)?\s*/i, "")
StripLeadingFence(s) ==
  IF s # <<>> /\ Head(s) = FENCE
    THEN LET t == Tail(s) IN
         DropSpaces(IF t # <<>> /\ Head(t) = JSONTAG THEN Tail(t) ELSE t)
    ELSE s

\* legacy: .replace(/\s*FENCE$/i, "")
StripTrailingFence(s) ==
  IF s # <<>> /\ s[Len(s)] = FENCE
    THEN DropSpacesEnd(SubSeq(s, 1, Len(s) - 1))
    ELSE s

\* legacy: text.replace(...).replace(...).trim()
LegacyClean(text) == Trim(StripTrailingFence(StripLeadingFence(text)))

RECURSIVE RemoveJsonFences(_)
\* v2: rawText.replace(/FENCEjson\s*/gi, "")
RemoveJsonFences(s) ==
  IF s = <<>> THEN <<>>
  ELSE IF Head(s) = FENCE /\ Len(s) >= 2 /\ s[2] = JSONTAG
    THEN RemoveJsonFences(DropSpaces(Tail(Tail(s))))
    ELSE <<Head(s)>> \o RemoveJsonFences(Tail(s))

RECURSIVE RemoveFences(_)
\* v2: .replace(/FENCE\s*/gi, "")
RemoveFences(s) ==
  IF s = <<>> THEN <<>>
  ELSE IF Head(s) = FENCE THEN RemoveFences(DropSpaces(Tail(s)))
  ELSE <<Head(s)>> \o RemoveFences(Tail(s))

\* v2: rawText.replace(...).replace(...).trim()
V2Clean(rawText) == Trim(RemoveFences(RemoveJsonFences(rawText)))

RECURSIVE LastIndexOf(_, _, _)
LastIndexOf(s, c, from) ==
  IF from < 1 THEN 0
  ELSE IF s[from] = c THEN from ELSE LastIndexOf(s, c, from - 1)

\* v2: cleaned.match(/\{[\s\S]*\}/) : from the first { to the last } after it
JsonMatch(cleaned) ==
  LET a == IndexOf(cleaned, LBRACE, 1)
      b == LastIndexOf(cleaned, RBRACE, Len(cleaned))
  IN IF a = 0 \/ b = 0 \/ b < a THEN [found |-> FALSE, span |-> <<>>]
     ELSE [found |-> TRUE, span |-> SubSeq(cleaned, a, b)]


\* ------------------------------------------------------------ the request
ABSENT == "<absent>"

\* JavaScript truthiness of a destructured string field
Truthy(v) == v \notin {ABSENT, ""}

\* content is absent, a string (a sequence of characters) or a non-zero number
ContentTruthy(c) == c.type = "number" \/ (c.type = "string" /\ c.str # <<>>)

RECURSIVE Join(_, _, _)
\* n segments of segLen letters each, joined by sep
Join(n, segLen, sep) ==
  IF n = 1 THEN Repeat(WORD, segLen)
  ELSE Repeat(WORD, segLen) \o <<sep>> \o Join(n - 1, segLen, sep)

SegLens == {0, 1, 26, 79, 80}

ContentStrings ==
  { Repeat(SP, p) \o Join(n, l, sep) \o Repeat(NL, p) :
      p \in 0..MaxPad, n \in 1..MaxSegs, l \in SegLens, sep \in {COMMA, NL} }

Contents ==
  { [type |-> "absent", str |-> <<>>], [type |-> "number", str |-> <<>>] }
  \cup { [type |-> "string", str |-> c] : c \in ContentStrings }

Modes == {ABSENT, "", "image", "product", "text", "other"}

MimeTypes == {ABSENT, "image/png"}

\* the request body: text that is not JSON, the JSON value null, another
\* JSON value that is not an object (it has no mode and no content), or an
\* object with the fields the handlers read
Bodies ==
  { [kind |-> k, mode |-> ABSENT, content |-> [type |-> "absent", str |-> <<>>],
     mimeType |-> ABSENT] : k \in {"invalid", "null", "scalar"} }
  \cup { [kind |-> "object", mode |-> m, content |-> c, mimeType |-> ABSENT] :
           m \in Modes, c \in Contents }
  \cup { [kind |-> "object", mode |-> "image", content |-> c, mimeType |-> t] :
           c \in Contents, t \in MimeTypes }

Requests == [method : {"POST", "GET"}, body : Bodies]

\* ------------------------------------------------------ the upstream reply
RECURSIVE Words(_, _)
\* n prose words, each followed (lead) or preceded by a space
Words(n, lead) ==
  IF n = 0 THEN <<>>
  ELSE (IF lead THEN <<WORD, SP>> ELSE <<SP, WORD>>) \o Words(n - 1, lead)

Str(c) == <<QUOTE>> \o c \o <<QUOTE>>

Obj(k, v) == <<LBRACE>> \o Str(<<k>>) \o <<COLON>> \o v \o <<RBRACE>>

\* texts the model may put where the JSON object is expected
Cores ==
  { <<LBRACE, RBRACE>>,
    Obj(KEYA, <<DIGIT>>),
    <<LBRACE, NL, SP>> \o Str(<<KEYA>>) \o <<SP, COLON, SP>> \o Str(<<WORD, SP, WORD>>) \o <<NL, RBRACE>>,
    Obj(KEYA, Str(<<WORD, FENCE, SP, WORD>>)),
    Obj(KEYA, Str(<<RBRACE, WORD, LBRACE>>)),
    Obj(KEYING, <<LBRACK, RBRACK>>),
    Obj(KEYING, <<LBRACK>> \o Obj(KEYA, Str(<<WORD>>)) \o <<COMMA, SP>> \o Obj(KEYA, Str(<<WORD>>)) \o <<RBRACK>>),
    Obj(KEYING, <<DIGIT>>),
    <<DIGIT>>,
    <<LBRACK, DIGIT, RBRACK>>,
    Str(<<WORD>>),
    <<LBRACE>> \o Str(<<KEYA>>) \o <<COLON>>,
    <<LBRACE>> \o Str(<<KEYA>>) \o <<RBRACE>>,
    <<WORD>>,
    <<>> }

Prefixes ==
  { Words(n, TRUE) : n \in 0..MaxProse }
  \cup { <<WORD, LBRACE, WORD, RBRACE, SP>>, <<NL>> }

Suffixes == { Words(n, FALSE) : n \in 0..MaxProse } \cup { <<NL>> }

Fences == {"none", "json", "plain"}

OpenFence(f) ==
  IF f = "json" THEN <<FENCE, JSONTAG, NL>>
  ELSE IF f = "plain" THEN <<FENCE, NL>> ELSE <<>>

CloseFence(f) == IF f = "none" THEN <<>> ELSE <<NL, FENCE>>

Render(pre, f, core, post) == pre \o OpenFence(f) \o core \o CloseFence(f) \o post

NoReply(k) ==
  [kind |-> k, pre |-> <<>>, fence |-> "none", core |-> <<>>, post |-> <<>>, text |-> <<>>]

\* what the completion service can answer: the transport fails, a non-2xx
\* status, a 2xx message without a text block, or a 2xx message with text
Upstreams ==
  { NoReply(k) : k \in {"reject", "httpError", "noText"} }
  \cup { [kind |-> "text", pre |-> a, fence |-> f, core |-> c, post |-> b,
          text |-> Render(a, f, c, b)] :
           a \in Prefixes, f \in Fences, c \in Cores, b \in Suffixes }

\* ----------------------------------------------------------- the response
NoResponse ==
  [status |-> 0, json |-> FALSE, error |-> "", extra |-> "none", raw |-> <<>>,
   body |-> <<>>, bodyType |-> "none", members |-> <<>>, contentType |-> FALSE,
   cors |-> FALSE]

\* { statusCode, body: JSON.stringify({ error }) } and the v2 equivalents
ErrorResponse(st, msg, ct) ==
  [NoResponse EXCEPT !.status = st, !.json = TRUE, !.error = msg, !.bodyType = "object",
                     !.contentType = ct]

NoCall == [template |-> "none", mediaType |-> ABSENT]

VARIABLES impl, request, apiKey, pc, calls, outbound, upstream, response

vars == <<impl, request, apiKey, pc, calls, outbound, upstream, response>>

Init ==
  /\ impl \in {"legacy", "v2"}
  /\ request \in Requests
  /\ apiKey \in BOOLEAN
  /\ pc = "start"
  /\ calls = 0
  /\ outbound = NoCall
  /\ upstream = NoReply("none")
  /\ response = NoResponse

Return(r) ==
  /\ response' = r
  /\ pc' = "done"

\* an exception that leaves the handler: no response is produced
Throw ==
  /\ response' = response
  /\ pc' = "thrown"

\* the completion service is called and the handler suspends
CallUpstream(msg) ==
  /\ calls' = calls + 1
  /\ outbound' = msg
  /\ pc' = "awaiting"
  /\ response' = response

\* mimeType || "image/jpeg"
MediaType(t) == IF Truthy(t) THEN t ELSE "image/jpeg"

NameMaxSegments == 3
NameMaxLength == 80
RawPrefixLength == 500

\* legacy: content.trim().split(/[\n,]/).length <= 3 && content.trim().length < 80
isProductName(content) ==
  SplitCount(Trim(content)) <= NameMaxSegments /\ Len(Trim(content)) < NameMaxLength

\* legacy: the user message built from mode, content and mimeType
LegacyUserMessage(b) ==
  IF b.mode = "image" THEN [template |-> "image", mediaType |-> MediaType(b.mimeType)]
  ELSE IF isProductName(b.content.str)
    THEN [template |-> "productName", mediaType |-> ABSENT]
    ELSE [template |-> "ingredientList", mediaType |-> ABSENT]

\* legacy handler, from entry to the fetch
LegacyHandler ==
  /\ impl = "legacy" /\ pc = "start"
  /\ UNCHANGED <<impl, request, apiKey, upstream>>
  /\ LET b == request.body IN
     IF request.method # "POST"
       THEN Return(ErrorResponse(405, "Method not allowed", FALSE)) /\ UNCHANGED <<calls, outbound>>
     ELSE IF ~apiKey
       THEN Return(ErrorResponse(500, "ANTHROPIC_API_KEY not set in environment variables", FALSE))
            /\ UNCHANGED <<calls, outbound>>
     ELSE IF b.kind = "invalid"
       THEN Return(ErrorResponse(400, "Invalid JSON body", FALSE)) /\ UNCHANGED <<calls, outbound>>
     ELSE IF b.kind = "null"
       THEN Throw /\ UNCHANGED <<calls, outbound>>
     ELSE IF ~Truthy(b.mode) \/ ~ContentTruthy(b.content)
       THEN Return(ErrorResponse(400, "Missing mode or content", FALSE)) /\ UNCHANGED <<calls, outbound>>
     ELSE IF b.mode # "image" /\ b.content.type # "string"
       THEN Throw /\ UNCHANGED <<calls, outbound>>
     ELSE CallUpstream(LegacyUserMessage(b))

\* LegacyNormalize with a slip in the catch of JSON.parse: the error body is
\* returned without the 500 (Netlify then answers 200)
LegacyNormalizeStatusSlip(text) ==
  LET clean == LegacyClean(Trim(text))
      parsed == JSONParse(clean)
  IN IF ~parsed.ok
       THEN [ErrorResponse(200, "Failed to parse AI response as JSON", FALSE)
               EXCEPT !.extra = "raw", !.raw = SliceTo(clean, RawPrefixLength)]
       ELSE [NoResponse EXCEPT !.status = 200, !.json = TRUE, !.body = parsed.val,
                               !.bodyType = parsed.type, !.members = parsed.members,
                               !.contentType = TRUE, !.cors = TRUE]

\* legacy: the text of the reply to a response
LegacyNormalize(text) ==
  LET clean == LegacyClean(Trim(text))
      parsed == JSONParse(clean)
  IN IF ~parsed.ok
       THEN [ErrorResponse(500, "Failed to parse AI response as JSON", FALSE)
               EXCEPT !.extra = "raw", !.raw = SliceTo(clean, RawPrefixLength)]
       ELSE [NoResponse EXCEPT !.status = 200, !.json = TRUE, !.body = parsed.val,
                               !.bodyType = parsed.type, !.members = parsed.members,
                               !.contentType = TRUE, !.cors = TRUE]

\* legacy handler, from the settling of the fetch to the return
LegacyOnReply ==
  /\ impl = "legacy" /\ pc = "awaiting"
  /\ UNCHANGED <<impl, request, apiKey, calls, outbound>>
  /\ \E u \in Upstreams :
       /\ upstream' = u
       /\ IF u.kind = "reject" THEN Return(ErrorResponse(500, "err.message", FALSE))
          ELSE IF u.kind = "httpError" THEN Return(ErrorResponse(500, "Anthropic API error", FALSE))
          ELSE IF u.kind = "noText" THEN Return(ErrorResponse(500, "err.message", FALSE))
          ELSE Return(LegacyNormalize(u.text))

\* v2: the messages built from mode, content and mimeType
V2Messages(b) ==
  IF b.mode = "image" THEN [template |-> "image", mediaType |-> MediaType(b.mimeType)]
  ELSE IF b.mode = "product" THEN [template |-> "productName", mediaType |-> ABSENT]
  ELSE [template |-> "skincareInput", mediaType |-> ABSENT]

\* v2 handler, from entry to client.messages.create
V2Handler ==
  /\ impl = "v2" /\ pc = "start"
  /\ UNCHANGED <<impl, request, apiKey, upstream>>
  /\ LET b == request.body IN
     IF request.method # "POST"
       THEN Return([NoResponse EXCEPT !.status = 405]) /\ UNCHANGED <<calls, outbound>>
     ELSE IF b.kind = "invalid"
       THEN Return(ErrorResponse(400, "Invalid JSON body", TRUE)) /\ UNCHANGED <<calls, outbound>>
     ELSE IF b.kind = "null"
       THEN Throw /\ UNCHANGED <<calls, outbound>>
     ELSE IF ~Truthy(b.mode) \/ ~ContentTruthy(b.content)
       THEN Return(ErrorResponse(400, "Missing required fields: mode, content", TRUE))
            /\ UNCHANGED <<calls, outbound>>
     ELSE IF ~apiKey
       THEN Return(ErrorResponse(500, "API key not configured", TRUE)) /\ UNCHANGED <<calls, outbound>>
     ELSE CallUpstream(V2Messages(b))

V2Failed == [ErrorResponse(500, "Analysis failed", TRUE) EXCEPT !.extra = "details"]

\* v2: the text of the reply to a response
V2Normalize(rawText) ==
  LET jsonMatch == JsonMatch(V2Clean(rawText))
      analysis == JSONParse(jsonMatch.span)
  IN IF ~jsonMatch.found \/ ~analysis.ok THEN V2Failed
     ELSE [NoResponse EXCEPT !.status = 200, !.json = TRUE, !.body = analysis.val,
                             !.bodyType = analysis.type, !.members = analysis.members,
                             !.contentType = TRUE]

\* v2 handler, from the settling of client.messages.create to the return
V2OnReply ==
  /\ impl = "v2" /\ pc = "awaiting"
  /\ UNCHANGED <<impl, request, apiKey, calls, outbound>>
  /\ \E u \in Upstreams :
       /\ upstream' = u
       /\ IF u.kind \in {"reject", "httpError", "noText"} THEN Return(V2Failed)
          ELSE Return(V2Normalize(u.text))

Next == LegacyHandler \/ LegacyOnReply \/ V2Handler \/ V2OnReply

Spec == Init /\ [][Next]_vars


\* =================================================================== claims
Returned == pc = "done"

IsErrorBody(r) == r.json /\ r.bodyType = "object" /\ r.error # ""

FieldsMissing == ~Truthy(request.body.mode) \/ ~ContentTruthy(request.body.content)

BodyParses == request.body.kind \in {"null", "scalar", "object"}

\* the request passes the method, body, field and credential checks
PassesChecks == request.method = "POST" /\ BodyParses /\ ~FieldsMissing /\ apiKey

\* the reply text after the fence stripping of the handler that received it
CleanedReply ==
  IF impl = "legacy" THEN LegacyClean(Trim(upstream.text)) ELSE V2Clean(upstream.text)

\* the reply has a valid JSON object where the JSON is expected
CoreIsObject == upstream.kind = "text" /\ JSONParse(upstream.core).type = "object"

\* C1: a POST whose body parses as JSON but lacks mode or content gets a 4xx
\* response with an error field, and the completion service is not called.
C1_MissingFieldsRejected ==
  (pc # "start" /\ request.method = "POST" /\ BodyParses /\ FieldsMissing)
    => (Returned /\ response.status \in 400..499 /\ IsErrorBody(response) /\ calls = 0)

\* C2: without the API key every POST request gets the 5xx configuration
\* error and the completion service is not called.
C2_MissingKeyIsConfigurationError ==
  (pc # "start" /\ request.method = "POST" /\ ~apiKey)
    => (/\ Returned
        /\ response.status \in 500..599
        /\ response.error \in {"ANTHROPIC_API_KEY not set in environment variables",
                               "API key not configured"}
        /\ calls = 0)

\* C3: every failure response has a JSON object body with an error field;
\* its status is 4xx when the client caused it (no call was made and the key
\* is not at fault) and 5xx for configuration, upstream and parse failures.
C3_FailuresAreJsonErrors ==
  (Returned /\ response.status # 200)
    => (/\ IsErrorBody(response)
        /\ response.status \in 400..599
        /\ (calls > 0 => response.status \in 500..599)
        /\ (request.method # "POST" => response.status = 405))

\* C4 as claimed: a reply that is not valid JSON after fence stripping
\* (or has no text block) gets a 5xx error response, the handler does not
\* throw and the completion service is called once.
C4_InvalidAfterStrippingIs5xx ==
  (pc \notin {"start", "awaiting"} /\ calls > 0
     /\ (upstream.kind = "noText"
           \/ (upstream.kind = "text" /\ ~JSONParse(CleanedReply).ok)))
    => (Returned /\ response.status \in 500..599 /\ IsErrorBody(response) /\ calls = 1)

\* the handler that received the reply recovers no JSON value from it
Unrecovered ==
  \/ upstream.kind = "noText"
  \/ /\ upstream.kind = "text"
     /\ IF impl = "legacy" THEN ~JSONParse(CleanedReply).ok
        ELSE \/ ~JsonMatch(CleanedReply).found
             \/ ~JSONParse(JsonMatch(CleanedReply).span).ok

\* C4 amended: a reply without a text block, or whose text is not valid JSON
\* after fence stripping and, in the v2 handler, after taking the span from
\* the first { to the last }, gets a 5xx error response whose error field
\* reports the failure; the handler does not throw and calls once.
C4_UnrecoveredIs5xx ==
  (pc \notin {"start", "awaiting"} /\ calls > 0 /\ Unrecovered)
    => (/\ Returned
        /\ response.status \in 500..599
        /\ IsErrorBody(response)
        /\ response.error \in {"Failed to parse AI response as JSON", "err.message",
                               "Analysis failed"}
        /\ calls = 1)

C4_Witness ==
  /\ Returned /\ calls = 1 /\ response.status = 500
  /\ upstream.kind = "text" /\ upstream.fence = "json" /\ Unrecovered

\* C5: a reply that is a JSON object wrapped in fences with a json tag gets
\* a 200 response whose body is exactly that object.
C5_FencedObjectReturnedUnchanged ==
  (Returned /\ CoreIsObject /\ upstream.fence = "json"
     /\ upstream.pre = <<>> /\ upstream.post = <<>>)
    => (response.status = 200 /\ response.body = JSONParse(upstream.core).val)

\* C6: the body of every 200 response is a JSON object, and its ingredients
\* member, when present, is an array.
C6_SuccessBodyHasTopLevelShape ==
  (Returned /\ response.status = 200)
    => (/\ response.bodyType = "object"
        /\ \A i \in 1..Len(response.members) :
             response.members[i][1] = Str(<<KEYING>>) => response.members[i][2] = "array")

\* C7: for mode text the message takes the product-name instruction exactly
\* when the trimmed content has at most 3 comma/newline separated segments
\* and fewer than 80 characters, and the ingredient-list instruction otherwise.
C7_TextModeFollowsHeuristic ==
  (calls > 0 /\ request.body.mode = "text" /\ request.body.content.type = "string")
    => LET t == Trim(request.body.content.str) IN
       IF SplitCount(t) <= 3 /\ Len(t) < 80
         THEN outbound.template = "productName"
         ELSE outbound.template = "ingredientList"

\* C8: the completion service is called at most once, exactly once when the
\* request passes the method, body, field and credential checks and not at
\* all otherwise, and a response exists only after the call has settled.
C8_ExactlyOneCall ==
  /\ calls <= 1
  /\ pc # "start" => (calls = 1 <=> PassesChecks)
  /\ pc = "awaiting" => response = NoResponse
  /\ (Returned /\ calls = 1) => upstream.kind # "none"

\* C9: a reply that is a valid JSON object surrounded by any prose, fenced
\* or not, gets a 200 response whose body is that object.
C9_ProseAroundObjectTolerated ==
  (Returned /\ CoreIsObject)
    => (response.status = 200 /\ response.body = JSONParse(upstream.core).val)

\* C10: for mode product the message is always the product-name instruction,
\* whatever the length of the content and the separators in it.
C10_ProductModeIsProductName ==
  (calls > 0 /\ request.body.mode = "product")
    => outbound.template = "productName"

====
